---- MODULE Spec2Model ----
(***************************************************************************)
(* bevy_ascii_snake: the chained Update systems of src/main.rs             *)
(*   spawn.run_if(on_event::<Restart>), make_food, input, vroom, grow,     *)
(*   eat, die                                                              *)
(* as a state machine.  One action per system; an action includes the      *)
(* application of the commands the system queued (the chain puts a sync    *)
(* point after every system that takes Commands).  A frame is one pass     *)
(* spawn -> ... -> die; pc names the system that runs next, so pc = "spawn"*)
(* is the boundary between two frames.                                     *)
(***************************************************************************)
EXTENDS Integers, Sequences, FiniteSets, TLC

(***************************************************************************)
(* Program constants.  Durations are counted in units of ACCELERATION      *)
(* (0.01 s).                                                               *)
(***************************************************************************)
INITIAL_TICK_DELAY == 15
ACCELERATION == 1
MIN_TICK_DELAY == 5

\* Bound of the model: the side of the stage.  The program's STAGE_SIZE is
\* [20, 20]; the model runs the same code on a smaller square stage.
STAGE_SIZE == 2

\* Bound of the model: a round is followed up to this many eat events.
MaxScore == 4

\* Frame times (Time::delta) the model draws from, in units of 0.01 s.
FrameDeltas == {8, 16}

ZERO == <<0, 0>>
START_DIR == <<0, 1>>

VARIABLES
    pc,        \* the system of the chain that runs next
    snakes,    \* entities with (Body, GameState, GridPos), in spawn order
    foods,     \* Food entities: their pos
    grows,     \* Grow entities: [turns, pos], in spawn order
    count,     \* FoodCount
    duration,  \* TickRate: the timer's duration
    elapsed,   \* TickRate: the timer's elapsed time
    restart,   \* a Restart event is waiting for spawn's run condition
    cand,      \* input's locals [hor, if hor == 0 { ver } else { 0 }] of this frame
    keys,      \* ButtonInput<KeyCode> as input read it in this frame
    prev,      \* history: the head's cell before the last advance of the round
    eaten,     \* history: eat events since the last spawn
    over,      \* history: which test of die ended the last round, until the next spawn
    panicked   \* an unwrap()/single_mut()/overflow check aborted the app

vars == <<pc, snakes, foods, grows, count, duration, elapsed, restart, cand,
          keys, prev, eaten, over, panicked>>

----------------------------------------------------------------------------
(* IVec2 and VecDeque helpers *)

Neg(v) == <<0 - v[1], 0 - v[2]>>

Add(a, b) == <<a[1] + b[1], a[2] + b[2]>>

Max(a, b) == IF a >= b THEN a ELSE b

Front(s) == s[1]

Back(s) == s[Len(s)]

PopBack(s) == SubSeq(s, 1, Len(s) - 1)

Contains(s, c) == \E i \in 1..Len(s) : s[i] = c

\* body.iter().skip(1)
Skip1(s) == SubSeq(s, 2, Len(s))

\* STAGE_SIZE.as_ivec2() / 2 : Rust integer division truncates towards zero
Half == STAGE_SIZE \div 2

\* make_food: rng.gen_range(0..size) - size / 2 on both axes
FieldCells == {<<x - Half, y - Half>> : x \in 0..(STAGE_SIZE - 1), y \in 0..(STAGE_SIZE - 1)}

\* die: min = -STAGE_SIZE / 2, max = min + STAGE_SIZE
BoundsMin == 0 - Half

BoundsMax == BoundsMin + STAGE_SIZE

\* IRect::from_corners(min, max).contains(p): both corners are inclusive
BoundsContains(p) ==
    /\ p[1] >= BoundsMin /\ p[1] <= BoundsMax
    /\ p[2] >= BoundsMin /\ p[2] <= BoundsMax

\* the held movement keys and the just-pressed Space of one frame
KeyStates == [left : BOOLEAN, right : BOOLEAN, up : BOOLEAN, down : BOOLEAN,
              space : BOOLEAN]

\* no key held, Space not pressed
NoKeys == [left |-> FALSE, right |-> FALSE, up |-> FALSE, down |-> FALSE,
           space |-> FALSE]

B2I(b) == IF b THEN 1 ELSE 0

\* Candidate with the vertical axis taking priority
CandidateVerFirst(k) ==
    LET hor == B2I(k.right) - B2I(k.left)
        ver == B2I(k.up) - B2I(k.down)
    IN  <<IF ver = 0 THEN hor ELSE 0, ver>>

\* input: hor, ver and the candidate [hor, if hor == 0 { ver } else { 0 }]
Candidate(k) ==
    LET hor == B2I(k.right) - B2I(k.left)
        ver == B2I(k.up) - B2I(k.down)
    IN  <<hor, IF hor = 0 THEN ver ELSE 0>>

\* Shorten with the two constants exchanged
ShortenSwapped(dur) == Max(dur - MIN_TICK_DELAY, ACCELERATION)

\* eat: dur = (dur - ACCELERATION).max(MIN_TICK_DELAY)
Shorten(dur) == Max(dur - ACCELERATION, MIN_TICK_DELAY)

\* the entity spawn() creates
NewSnake == [body |-> <<ZERO>>, curr_dir |-> START_DIR, next_dir |-> START_DIR,
             pos |-> ZERO, changed |-> TRUE]

\* indices of the snakes a Changed<GridPos> query matches
ChangedSnakes == {i \in 1..Len(snakes) : snakes[i].changed}

\* all orders in which a query may visit the entities S
Orderings(S) ==
    {o \in [1..Cardinality(S) -> S] : \A i, j \in 1..Cardinality(S) : o[i] = o[j] => i = j}

----------------------------------------------------------------------------
Init ==
    /\ pc = "spawn"
    /\ snakes = <<>>
    /\ foods = <<>>
    /\ grows = <<>>
    /\ count = 0
    /\ duration = INITIAL_TICK_DELAY
    /\ elapsed = 0
    /\ restart = FALSE
    /\ cand = ZERO
    /\ keys = NoKeys
    /\ prev = ZERO
    /\ eaten = 0
    /\ over = "none"
    /\ panicked = FALSE

\* spawn.run_if(on_event::<Restart>): the condition's reader consumes the event
spawn ==
    /\ pc = "spawn" /\ ~panicked
    /\ IF restart
       THEN /\ snakes' = Append(snakes, NewSnake)
            /\ count' = 0
            /\ duration' = INITIAL_TICK_DELAY
            /\ eaten' = 0
            /\ over' = "none"
            /\ prev' = ZERO
       ELSE UNCHANGED <<snakes, count, duration, eaten, over, prev>>
    /\ restart' = FALSE
    /\ pc' = "make_food"
    /\ UNCHANGED <<foods, grows, elapsed, cand, keys, panicked>>

\* NeedsFood without the test q_food.is_empty()
NeedsFoodAlways == Len(snakes) = 1

\* FreeCells without the test body.contains(&pos)
FreeCellsAny(body) == FieldCells

\* make_food: if q_food.is_empty() { if let Ok(body) = q_body.get_single() { .. } }
NeedsFood == Len(foods) = 0 /\ Len(snakes) = 1

\* make_food: the cells the loop can leave with, those body.contains rejects not
FreeCells(body) == {c \in FieldCells : ~Contains(body, c)}

\* make_food: rejection sampling; with no free cell the loop never ends
make_food ==
    /\ pc = "make_food" /\ ~panicked
    /\ IF NeedsFood
       THEN IF FreeCells(snakes[1].body) = {}
            THEN UNCHANGED <<foods, pc>>
            ELSE /\ \E c \in FreeCells(snakes[1].body) : foods' = Append(foods, c)
                 /\ pc' = "input"
       ELSE /\ UNCHANGED foods
            /\ pc' = "input"
    /\ UNCHANGED <<snakes, grows, count, duration, elapsed, restart, cand, keys, prev,
                   eaten, over, panicked>>

\* SendsRestart without the test for a live snake
SendsRestartAlways(k) == k.space

\* InputAccepts with the reversal guard placed in input
InputAcceptsNoReversal(s, c) == c # ZERO /\ c # Neg(s.curr_dir)

\* input: without a single snake, if input.just_pressed(KeyCode::Space) { restart.send(Restart) }
SendsRestart(k) == Len(snakes) # 1 /\ k.space

\* input: if hor == 0 && ver == 0 { return } guards the write of next_dir
InputAccepts(s, c) == c # ZERO

input ==
    /\ pc = "input" /\ ~panicked
    /\ \E k \in KeyStates :
         /\ restart' = (restart \/ SendsRestart(k))
         /\ keys' = k
         /\ IF Len(snakes) # 1
            THEN UNCHANGED <<snakes, cand>>
            ELSE /\ cand' = Candidate(k)
                 /\ snakes' = IF InputAccepts(snakes[1], Candidate(k))
                              THEN [snakes EXCEPT ![1].next_dir = Candidate(k)]
                              ELSE snakes
    /\ pc' = "vroom"
    /\ UNCHANGED <<foods, grows, count, duration, elapsed, prev, eaten, over, panicked>>

\* Advance committing next_dir without the reversal guard
AdvanceNoGuard(s) ==
    LET next == Add(Front(s.body), s.next_dir)
    IN  [body |-> PopBack(<<next>> \o s.body), curr_dir |-> s.next_dir,
         next_dir |-> s.next_dir, pos |-> next, changed |-> TRUE]

\* Advance computing the next cell from GridPos and storing it one step late
AdvanceLatePos(s) ==
    LET dir == IF s.next_dir # Neg(s.curr_dir) THEN s.next_dir ELSE s.curr_dir
        next == Add(Front(s.body), dir)
    IN  [body |-> PopBack(<<next>> \o s.body), curr_dir |-> dir,
         next_dir |-> s.next_dir, pos |-> Front(s.body), changed |-> TRUE]

\* the body of vroom's for loop on one snake
Advance(s) ==
    LET dir == IF s.next_dir # Neg(s.curr_dir) THEN s.next_dir ELSE s.curr_dir
        next == Add(Front(s.body), dir)
    IN  [body |-> PopBack(<<next>> \o s.body), curr_dir |-> dir,
         next_dir |-> s.next_dir, pos |-> next, changed |-> TRUE]

vroom ==
    /\ pc = "vroom" /\ ~panicked
    /\ \E delta \in FrameDeltas :
         IF elapsed + delta >= duration
         THEN /\ elapsed' = 0
              /\ IF \E i \in 1..Len(snakes) : Len(snakes[i].body) = 0
                 THEN panicked' = TRUE /\ UNCHANGED <<snakes, prev>>
                 ELSE /\ snakes' = [i \in 1..Len(snakes) |-> Advance(snakes[i])]
                      /\ prev' = IF Len(snakes) = 1 THEN Front(snakes[1].body) ELSE prev
                      /\ UNCHANGED panicked
         ELSE /\ elapsed' = elapsed + delta
              /\ UNCHANGED <<snakes, prev, panicked>>
    /\ cand' = ZERO
    /\ keys' = NoKeys
    /\ pc' = "grow"
    /\ UNCHANGED <<foods, grows, count, duration, restart, eaten, over>>

\* GrowFires without the comparison against the score
GrowFiresAlways(g) == TRUE

\* grow: if grow.turns <= count.0 { body.0.push_back(grow.pos) }
GrowFires(g) == g.turns <= count

\* grow's loop over q_grow, visiting the Grow entities that fire in order o
GrowPushes(o) == [k \in 1..Len(o) |-> grows[o[k]].pos]

\* GrowDecremented without the despawn at zero
GrowDecrementedKept ==
    [i \in 1..Len(grows) |-> [turns |-> grows[i].turns - 1, pos |-> grows[i].pos]]

\* grow: grow.turns -= 1; if grow.turns == 0 { commands.entity(entity).despawn() }
GrowDecremented ==
    SelectSeq([i \in 1..Len(grows) |-> [turns |-> grows[i].turns - 1, pos |-> grows[i].pos]],
              LAMBDA g : g.turns # 0)

grow ==
    /\ pc = "grow" /\ ~panicked
    /\ IF ChangedSnakes = {}
       THEN UNCHANGED <<snakes, grows, panicked>>
       ELSE IF Cardinality(ChangedSnakes) > 1 \/ \E i \in 1..Len(grows) : grows[i].turns = 0
       THEN panicked' = TRUE /\ UNCHANGED <<snakes, grows>>
       ELSE LET n == CHOOSE i \in ChangedSnakes : TRUE
                firing == {i \in 1..Len(grows) : GrowFires(grows[i])}
            IN  /\ \E o \in Orderings(firing) :
                     snakes' = [snakes EXCEPT ![n].body = @ \o GrowPushes(o)]
                /\ grows' = GrowDecremented
                /\ UNCHANGED panicked
    /\ pc' = "eat"
    /\ UNCHANGED <<foods, count, duration, elapsed, restart, cand, keys, prev, eaten, over>>

\* EatGrow capturing the head cell instead of the tail cell
EatGrowFront(score, s) == [turns |-> score, pos |-> Front(s.body)]

\* eat: commands.spawn(Grow { turns: count.0, pos: *body.0.back().unwrap() })
EatGrow(score, s) == [turns |-> score, pos |-> Back(s.body)]

\* eat: the (snake, food) pairs of the nested loops whose cells match
EatMatches ==
    {p \in ChangedSnakes \X (1..Len(foods)) : snakes[p[1]].pos = foods[p[2]]}

RECURSIVE ShortenN(_, _)
ShortenN(dur, n) == IF n = 0 THEN dur ELSE ShortenN(Shorten(dur), n - 1)

eat ==
    /\ pc = "eat" /\ ~panicked
    /\ count + Cardinality(EatMatches) <= MaxScore
    /\ IF EatMatches = {}
       THEN UNCHANGED <<foods, grows, count, duration, eaten, panicked>>
       ELSE IF \E p \in EatMatches : Len(snakes[p[1]].body) = 0
       THEN panicked' = TRUE /\ UNCHANGED <<foods, grows, count, duration, eaten>>
       ELSE /\ \E o \in Orderings(EatMatches) :
                 grows' = grows \o [k \in 1..Len(o) |-> EatGrow(count + k, snakes[o[k][1]])]
            /\ count' = count + Cardinality(EatMatches)
            /\ eaten' = eaten + Cardinality(EatMatches)
            /\ foods' = SelectSeq(foods, LAMBDA f : \A p \in EatMatches : foods[p[2]] # f)
            /\ duration' = ShortenN(duration, Cardinality(EatMatches))
            /\ UNCHANGED panicked
    /\ pc' = "die"
    /\ UNCHANGED <<snakes, elapsed, restart, cand, keys, prev, over>>

\* die: if !bounds.contains(pos.0) { game_over }
OutOfBounds(s) == ~BoundsContains(s.pos)

\* HitsBody skipping one cell too many
HitsBodySkip2(s) == Contains(Skip1(Skip1(s.body)), s.pos)

\* die: for p in body.0.iter().skip(1) { if *p == pos.0 { game_over } }
HitsBody(s) == Contains(Skip1(s.body), s.pos)

Dead(s) == OutOfBounds(s) \/ HitsBody(s)

\* the frame ends after die: what changed in it is no longer Changed in the next
Unchange(ss) == [i \in 1..Len(ss) |-> [ss[i] EXCEPT !.changed = FALSE]]

die ==
    /\ pc = "die" /\ ~panicked
    /\ IF Cardinality(ChangedSnakes) = 1 /\ Dead(snakes[CHOOSE i \in ChangedSnakes : TRUE])
       THEN LET n == CHOOSE i \in ChangedSnakes : TRUE
            IN  /\ snakes' = Unchange([i \in 1..(Len(snakes) - 1) |->
                                         IF i < n THEN snakes[i] ELSE snakes[i + 1]])
                /\ foods' = <<>>
                /\ over' = IF OutOfBounds(snakes[n]) THEN "bounds" ELSE "self"
                /\ prev' = ZERO
       ELSE /\ snakes' = Unchange(snakes)
            /\ UNCHANGED <<foods, over, prev>>
    /\ pc' = "spawn"
    /\ UNCHANGED <<grows, count, duration, elapsed, restart, cand, keys, eaten, panicked>>

Next == spawn \/ make_food \/ input \/ vroom \/ grow \/ eat \/ die

Spec == Init /\ [][Next]_vars

----------------------------------------------------------------------------
(* Shorthands for the formulas *)

Alive == Len(snakes) = 1

FrameEnd == pc = "spawn"

\* the one snake, when there is exactly one
Snake == snakes[1]

\* the cells in which make_food can place food: the STAGE_SIZE x STAGE_SIZE play field
InField(p) == p \in FieldCells

Distinct(s) == \A i, j \in 1..Len(s) : s[i] = s[j] => i = j

----------------------------------------------------------------------------
(* C1: in any round, once every pending Grow request has been destroyed,   *)
(* Body length equals the initial length 1 plus the number of eat events   *)
(* of that round (and the score equals that number).                       *)
C1_LengthIsOnePlusEats ==
    Alive /\ grows = <<>> => count = eaten /\ Len(Snake.body) = 1 + eaten

(* C2: at the end of every frame a live snake's head lies inside the       *)
(* STAGE_SIZE play field (an advance that leaves it fires the death        *)
(* transition in the same frame).                                          *)
C2_HeadInsideField ==
    FrameEnd /\ Alive => InField(Snake.pos)

(* C3: at the end of every frame a live Food's cell is not contained in    *)
(* the Body.                                                               *)
C3_FoodNotInBody ==
    FrameEnd => \A i \in 1..Len(snakes), j \in 1..Len(foods) :
                    ~Contains(snakes[i].body, foods[j])

(* C4: at the end of every frame in which the snake exists, all cells of   *)
(* Body are pairwise distinct.                                             *)
C4_BodyCellsDistinct ==
    FrameEnd /\ Alive => Distinct(Snake.body)

C6_NoEatNoGrowth ==
    Alive /\ eaten = 0 => Len(Snake.body) = 1

\* two advances into a later round, Grow requests of an earlier round pending
C6_Witness ==
    /\ Alive /\ eaten = 0 /\ grows # <<>>
    /\ Snake.pos = <<1, 1>>
    /\ Len(Snake.body) = 1

(* C7: at the end of every frame with a live snake the head differs from   *)
(* every Body cell other than the head; when the snake is gone, so is the  *)
(* food.                                                                   *)
C7_HeadOffBody ==
    FrameEnd => IF Alive THEN ~Contains(Skip1(Snake.body), Snake.pos)
                ELSE snakes = <<>> => foods = <<>>

\* die has ended a round because the head ran into the Body
C7_Witness ==
    FrameEnd /\ over = "self" /\ snakes = <<>> /\ foods = <<>>

C9_EatStep ==
    [][/\ pc = "vroom" /\ Alive /\ snakes'[1].pos # Snake.pos => snakes'[1].changed
       /\ pc = "eat" =>
            IF Alive /\ Snake.changed /\ Len(foods) = 1 /\ foods[Len(foods)] = Snake.pos
            THEN /\ count' = count + 1
                 /\ foods' = <<>>
                 /\ grows' = Append(grows, [turns |-> count + 1,
                                            pos |-> Snake.body[Len(Snake.body)]])
                 /\ duration' = Max(duration - ACCELERATION, MIN_TICK_DELAY)
            ELSE UNCHANGED <<count, foods, grows, duration>>]_vars

\* the second eat of a round, by a snake whose tail is not its head
C9_Witness ==
    /\ pc = "die" /\ Alive /\ eaten = 2 /\ count = 2 /\ foods = <<>>
    /\ Len(Snake.body) >= 2
    /\ grows # <<>>
    /\ grows[Len(grows)] = [turns |-> 2, pos |-> Snake.body[Len(Snake.body)]]
    /\ duration = INITIAL_TICK_DELAY - 2 * ACCELERATION

(* C10: a Restart is sent only by input and only while no snake exists;    *)
(* the spawn it leads to happens once, with no snake present, and produces *)
(* Body = [(0,0)], GridPos = (0,0), curr_dir = next_dir = (0,1), score 0   *)
(* and interval INITIAL_TICK_DELAY; while a snake is alive input sends no  *)
(* Restart; at most one snake exists.                                      *)
C10_StartSignal ==
    [][/\ Len(snakes') <= 1
       /\ pc = "input" /\ Len(snakes) >= 1 => ~restart'
       /\ restart' /\ ~restart => pc = "input" /\ snakes = <<>>
       /\ Len(snakes') > Len(snakes) => pc = "spawn" /\ restart
       /\ pc = "spawn" /\ restart =>
            /\ snakes = <<>>
            /\ snakes' = <<[body |-> <<<<0, 0>>>>, curr_dir |-> <<0, 1>>,
                            next_dir |-> <<0, 1>>, pos |-> <<0, 0>>, changed |-> TRUE]>>
            /\ count' = 0
            /\ duration' = INITIAL_TICK_DELAY
            /\ ~restart']_vars

\* a restart after a round that ended with Grow requests pending
C10_Witness ==
    /\ pc = "make_food" /\ Alive /\ Snake.changed
    /\ Snake.body = <<ZERO>> /\ Snake.pos = ZERO
    /\ count = 0 /\ duration = INITIAL_TICK_DELAY
    /\ grows # <<>>

\* the timer finished in this frame's vroom: tick.reset() has just run
Ticked == elapsed = 0

Units == {<<1, 0>>, <<-1, 0>>, <<0, 1>>, <<0, -1>>}

(* C11: at the moment a new snake is spawned no Grow request exists (none  *)
(* of an earlier round has survived).                                      *)
C11_NoGrowAtSpawn ==
    [][Len(snakes') > Len(snakes) => grows' = <<>>]_vars

(* C12: on every advance the committed curr_dir is not the negation of the *)
(* curr_dir before it, the head moves by curr_dir, and from the second     *)
(* advance of a round on the head does not land on the cell it occupied    *)
(* before the previous advance.                                            *)
C12_NoReversal ==
    [][pc = "vroom" /\ Alive /\ Ticked' =>
         /\ snakes'[1].curr_dir # Neg(Snake.curr_dir)
         /\ snakes'[1].pos = <<Snake.pos[1] + snakes'[1].curr_dir[1],
                               Snake.pos[2] + snakes'[1].curr_dir[2]>>
         /\ prev' = Snake.pos
         /\ prev # Snake.pos => snakes'[1].pos # prev]_vars

\* an advance committed while the held key asked for the reverse direction
C12_Witness ==
    /\ pc = "grow" /\ Alive /\ Ticked
    /\ Snake.next_dir = Neg(Snake.curr_dir)
    /\ prev # ZERO
    /\ Snake.pos = <<prev[1] + Snake.curr_dir[1], prev[2] + Snake.curr_dir[2]>>

(* C13: on every advance the Body length stays the same or increases by    *)
(* exactly one: vroom keeps it, and the growth step of the frame adds at   *)
(* most one cell.                                                          *)
C13_GrowsByAtMostOne ==
    [][/\ pc = "vroom" /\ Alive => Len(snakes'[1].body) = Len(Snake.body)
       /\ pc = "grow" /\ Alive =>
            \/ Len(snakes'[1].body) = Len(Snake.body)
            \/ Len(snakes'[1].body) = Len(Snake.body) + 1]_vars

(* C14: the growth step changes the Grow requests in the frames with an    *)
(* advance and in no other frame: it then decrements every turns counter   *)
(* once and destroys the requests that reach zero.                         *)
C14_CountdownOnAdvancesOnly ==
    [][pc = "grow" =>
         IF Alive /\ Ticked
         THEN grows' = SelectSeq([i \in 1..Len(grows) |->
                                    [turns |-> grows[i].turns - 1, pos |-> grows[i].pos]],
                                 LAMBDA g : g.turns > 0)
         ELSE grows' = grows]_vars

(* C15: at the end of every frame in which the snake exists GridPos is the *)
(* front cell of Body, and the growth step keeps the Body it finds as a    *)
(* prefix of the Body it leaves.                                           *)
C15_PosIsFront ==
    [][/\ pc' = "spawn" /\ Len(snakes') = 1 => snakes'[1].pos = snakes'[1].body[1]
       /\ pc = "grow" /\ Alive =>
            /\ Len(snakes'[1].body) >= Len(Snake.body)
            /\ SubSeq(snakes'[1].body, 1, Len(Snake.body)) = Snake.body
            /\ snakes'[1].pos = Snake.pos]_vars

\* a frame ends after the growth step has appended behind a moved head
C15_Witness ==
    /\ FrameEnd /\ Alive /\ Ticked
    /\ Len(Snake.body) >= 3
    /\ Snake.pos = Snake.body[1]
    /\ grows # <<>>

(* C16: for the keys input read, the candidate is (right - left, 0) when   *)
(* right - left is non-zero and (0, up - down) otherwise; a zero candidate *)
(* leaves next_dir unchanged; curr_dir and next_dir of a snake are always  *)
(* one of the four unit axis vectors.                                      *)
C16_CandidateAndUnits ==
    [][/\ \A i \in 1..Len(snakes') :
            snakes'[i].curr_dir \in Units /\ snakes'[i].next_dir \in Units
       /\ pc = "input" /\ Alive =>
            LET h == (IF keys'.right THEN 1 ELSE 0) - (IF keys'.left THEN 1 ELSE 0)
                v == (IF keys'.up THEN 1 ELSE 0) - (IF keys'.down THEN 1 ELSE 0)
            IN  /\ cand' = IF h # 0 THEN <<h, 0>> ELSE <<0, v>>
                /\ cand' = ZERO => snakes'[1].next_dir = Snake.next_dir
                /\ cand' # ZERO => snakes'[1].next_dir = cand']_vars

\* right and up held together: the horizontal axis wins
C16_Witness ==
    /\ pc = "vroom" /\ Alive
    /\ keys.right /\ keys.up /\ ~keys.left /\ ~keys.down
    /\ cand = <<1, 0>>
    /\ Snake.next_dir = <<1, 0>>

(* C17: at most one Food exists, and a Food exists only while a snake      *)
(* exists.                                                                 *)
C17_FoodOnlyWithSnake ==
    /\ Len(foods) <= 1
    /\ foods # <<>> => snakes # <<>>

\* after a death make_food has run without a snake and placed nothing
C17_Witness ==
    pc = "input" /\ snakes = <<>> /\ over = "bounds" /\ foods = <<>>

(* C18 as claimed: in every frame where a snake exists and no food exists, *)
(* at least one play-field cell is outside the Body.                       *)
C18_FreeCellExists ==
    pc = "make_food" /\ Alive /\ foods = <<>> =>
        \E c \in FieldCells : ~Contains(Snake.body, c)

(* C18 amended: in a frame where a snake exists, no food exists and some   *)
(* play-field cell is outside the Body, make_food places one food on such  *)
(* a cell; when the Body covers the play field make_food never returns and *)
(* the frame does not go on; every vroom on a live snake runs with exactly *)
(* one food on the field.                                                  *)
C18_FoodBeforeMotion ==
    [][/\ pc = "make_food" /\ Alive /\ foods = <<>> =>
            IF \E c \in FieldCells : ~Contains(Snake.body, c)
            THEN /\ pc' = "input"
                 /\ Len(foods') = 1
                 /\ foods'[1] \in FieldCells
                 /\ ~Contains(Snake.body, foods'[1])
            ELSE pc' = "make_food" /\ foods' = <<>>
       /\ pc = "vroom" /\ Alive => Len(foods) = 1]_vars

\* make_food has replaced the food eaten in the previous frame
C18_Witness ==
    /\ pc = "input" /\ Alive /\ eaten = 2
    /\ Len(foods) = 1
    /\ ~Contains(Snake.body, foods[1])
    /\ Len(Snake.body) >= 2

(* C19: no stage aborts: every Body is non-empty, every live Grow request  *)
(* has turns >= 1, at most one snake exists, and no unwrap, single_mut or  *)
(* overflow check has failed.                                              *)
C19_NoAbort ==
    /\ ~panicked
    /\ Len(snakes) <= 1
    /\ \A i \in 1..Len(snakes) : Len(snakes[i].body) >= 1
    /\ \A i \in 1..Len(grows) : grows[i].turns >= 1

\* grow has decremented a request to zero and destroyed it; with no snake
\* the stages are skipped
C19_Witness ==
    /\ pc = "eat" /\ Alive /\ Snake.changed /\ Ticked
    /\ eaten = 1 /\ grows = <<>>
    /\ Len(Snake.body) = 2
    /\ ~panicked

====
